---- MODULE Spec2Model ----
(***************************************************************************)
(* Model of rgb_to_spec/python/main.py: the spectral table fitting script. *)
(* It covers the z-node axis and the target grid (computed in IEEE-754      *)
(* binary32 arithmetic, as torch.float32 does), the dark training pool,     *)
(* and the control flow of the driver loop and of train_space (Stage A,     *)
(* Stage B, checkpoints and the final table write).                         *)
(***************************************************************************)
EXTENDS Integers, Sequences, FiniteSets, TLC

(***************************************************************************)
(* Program constants (main.py lines 8-25).                                  *)
(***************************************************************************)
TABLE_SIZE == 64

SCALE_A == 100

SCALE_B == 100

SCALE_C == 10

(***************************************************************************)
(* binary32 arithmetic.  A float is a record [s, m, e] standing for        *)
(* (-1)^s * m * 2^e with m = 0 or 2^23 <= m < 2^24.  Every operation is    *)
(* rounded to nearest, ties to even, as the hardware does.  No value of    *)
(* the program leaves the normal range, so subnormals are not represented. *)
(***************************************************************************)
\* The number of bits of n >= 0.
RECURSIVE BitLen(_)
BitLen(n) ==
    IF n >= 65536 THEN 16 + BitLen(n \div 65536)
    ELSE IF n >= 256 THEN 8 + BitLen(n \div 256)
    ELSE IF n >= 16 THEN 4 + BitLen(n \div 16)
    ELSE IF n >= 4 THEN 2 + BitLen(n \div 4)
    ELSE IF n >= 2 THEN 2
    ELSE n

F32Zero == [s |-> 0, m |-> 0, e |-> 0]

\* n \div 2^sh rounded to nearest, ties to even (sh >= 1).
RoundShift(n, sh) ==
    LET q    == n \div (2 ^ sh)
        rem  == n % (2 ^ sh)
        half == 2 ^ (sh - 1)
    IN  IF rem > half \/ (rem = half /\ q % 2 = 1) THEN q + 1 ELSE q

\* The float nearest to n * 2^e, for an integer 0 <= n < 2^31.
F32Norm(n, e) ==
    LET len == BitLen(n)
    IN  IF n = 0 THEN F32Zero
        ELSE IF len <= 24
             THEN [s |-> 0, m |-> n * (2 ^ (24 - len)), e |-> e - (24 - len)]
        ELSE LET sh == len - 24
                 q  == RoundShift(n, sh)
             IN  IF q = 2 ^ 24
                 THEN [s |-> 0, m |-> 2 ^ 23, e |-> e + sh + 1]
                 ELSE [s |-> 0, m |-> q, e |-> e + sh]

\* tensor.to(torch.float32) of an integer 0 <= n < 2^24 (exact).
IntToF32(n) == F32Norm(n, 0)

F32One == IntToF32(1)

F32Three == IntToF32(3)

\* a * b.  The 48-bit product of the mantissas is formed from 12-bit halves;
\* its low bits are kept as two guard bits and a sticky bit.
F32Mul(a, b) ==
    IF a.m = 0 \/ b.m = 0 THEN F32Zero
    ELSE LET a1  == a.m \div 4096
             a0  == a.m % 4096
             b1  == b.m \div 4096
             b0  == b.m % 4096
             mid == a1 * b0 + a0 * b1
             los == (mid % 4096) * 4096 + a0 * b0
             lo  == los % (2 ^ 24)
             hi  == a1 * b1 + (mid \div 4096) + (los \div (2 ^ 24))
             jam == hi * 8 + (lo \div (2 ^ 22)) * 2
                    + (IF lo % (2 ^ 22) # 0 THEN 1 ELSE 0)
             r   == F32Norm(jam, a.e + b.e + 21)
         IN  [r EXCEPT !.s = (a.s + b.s) % 2]

\* Long division, seven bits at a time: <<quotient, remainder>> of
\* (q * d + r) * 2^(7 * n) by d, for r < d < 2^24.
RECURSIVE DivBits(_, _, _, _)
DivBits(r, d, n, q) ==
    IF n = 0 THEN <<q, r>>
    ELSE DivBits((128 * r) % d, d, n - 1, 128 * q + ((128 * r) \div d))

\* a / b for a, b >= 0, b # 0: 28 quotient bits and a sticky bit, rounded.
F32Div(a, b) ==
    IF a.m = 0 THEN F32Zero
    ELSE LET qr  == DivBits(a.m % b.m, b.m, 4, a.m \div b.m)
             jam == 2 * qr[1] + (IF qr[2] # 0 THEN 1 ELSE 0)
         IN  F32Norm(jam, a.e - b.e - 29)

\* a - b for a >= b >= 0.
F32Sub(a, b) ==
    IF b.m = 0 THEN a
    ELSE LET d == a.e - b.e
         IN  IF d <= 6
             THEN F32Norm(a.m * (2 ^ d) - b.m, b.e)
             ELSE IF d >= 30 THEN a
             ELSE LET keep   == b.m \div (2 ^ (d - 5))
                      sticky == IF b.m % (2 ^ (d - 5)) # 0 THEN 1 ELSE 0
                  IN  F32Norm(2 * (a.m * 32 - keep) - sticky, a.e - 6)

\* a <= b for a, b >= 0.
F32Leq(a, b) ==
    \/ a.m = 0
    \/ /\ b.m # 0
       /\ \/ a.e < b.e
          \/ a.e = b.e /\ a.m <= b.m

(***************************************************************************)
(* z-nodes (main.py lines 63-68).                                           *)
(***************************************************************************)
\* The two kernels a build uses for tensor / python-scalar: the quotient, or
\* the product with the scalar's reciprocal (the CUDA kernel of torch).
Kernels == {"div", "rcp"}

DivScalar(kernel, x, d) ==
    IF kernel = "div"
    THEN F32Div(x, IntToF32(d))
    ELSE F32Mul(x, F32Div(F32One, IntToF32(d)))

\* A smoothstep that lost one factor x: x * (3 - 2x).
smoothstepLinear(x) ==
    F32Mul(x, F32Sub(F32Three, F32Mul(IntToF32(2), x)))

smoothstep(x) ==
    F32Mul(F32Mul(x, x), F32Sub(F32Three, F32Mul(IntToF32(2), x)))

z_node(kernel, n, i) ==
    smoothstep(smoothstep(DivScalar(kernel, IntToF32(i), n - 1)))

\* z_nodes = smoothstep(smoothstep(idx_float / (TABLE_SIZE - 1))), a tensor of
\* n values, indexed here from 1.
ZNodes(kernel, n) == [i \in 1..n |-> z_node(kernel, n, i - 1)]

(***************************************************************************)
(* Target grid (main.py lines 139-149).                                     *)
(***************************************************************************)
\* idx.to(DTYPE) / (TABLE_SIZE - 1), for one index (lines 141-142).
IdxFrac(kernel, n, idx) == DivScalar(kernel, IntToF32(idx), n - 1)

\* A grid whose second triple is stacked as (z, y, x).
TargetCellSwapped(z, fy, fx) ==
    LET y == F32Mul(fy, z)
        x == F32Mul(fx, z)
    IN  << <<z, x, y>>, <<z, y, x>>, <<x, y, z>> >>

\* The three triples rgb_target[:, zi, yi, xi, :] of one cell of the grid,
\* from z = z_nodes[zi] and the fractions fy, fx of yi and xi.
TargetCell(z, fy, fx) ==
    LET y == F32Mul(fy, z)
        x == F32Mul(fx, z)
    IN  << <<z, x, y>>, <<y, z, x>>, <<x, y, z>> >>

\* rgb_target as nested tuples [major axis][zi][yi][xi][channel].
RgbTarget(kernel, n, zs) ==
    [m \in 1..3 |->
      [zi \in 1..n |->
        [yi \in 1..n |->
          [xi \in 1..n |->
            TargetCell(zs[zi], IdxFrac(kernel, n, yi - 1),
                       IdxFrac(kernel, n, xi - 1))[m]]]]]

(***************************************************************************)
(* Dark training pool (main.py lines 119-123).                              *)
(***************************************************************************)
\* The python scalar 0.3 as a float32 operand: 0x3E99999A.
F32Dark == [s |-> 0, m |-> 10066330, e |-> -25]

Perms3 ==
    {p \in [0..2 -> 0..2] : \A a, b \in 0..2 : a # b => p[a] # p[b]}

\* torch.argsort(keys, dim=1) of one row: the index orders that sort the row.
\* The sort is not stable, so equal keys may come out in either order.
ArgSorts(keys) ==
    {p \in Perms3 : \A a, b \in 0..2 : a < b => keys[p[a]] <= keys[p[b]]}

\* A mask built with > in place of >=.
DarkMaskStrict(rand_indices, num_zeros) ==
    [j \in 0..2 |-> IF rand_indices[j] > num_zeros THEN F32One ELSE F32Zero]

\* mask = (rand_indices >= num_zeros.unsqueeze(1)).to(DTYPE)
DarkMask(rand_indices, num_zeros) ==
    [j \in 0..2 |-> IF rand_indices[j] >= num_zeros THEN F32One ELSE F32Zero]

\* rand * 0.3 * mask
DarkRow(rand, mask) ==
    [j \in 0..2 |-> F32Mul(F32Mul(rand[j], F32Dark), mask[j])]

(***************************************************************************)
(* Tensors are nested tuples; a tensor of depth d has d index levels.       *)
(***************************************************************************)
\* The concatenation of a sequence of sequences, by halves.
RECURSIVE Concat(_)
Concat(seqs) ==
    IF Len(seqs) = 0 THEN <<>>
    ELSE IF Len(seqs) = 1 THEN seqs[1]
    ELSE LET h == Len(seqs) \div 2
         IN  Concat(SubSeq(seqs, 1, h)) \o Concat(SubSeq(seqs, h + 1, Len(seqs)))

\* numpy ravel(): the elements in row-major order, the first index slowest.
RECURSIVE Ravel(_, _)
Ravel(t, depth) ==
    IF depth = 1 THEN t
    ELSE Concat([j \in 1..Len(t) |-> Ravel(t[j], depth - 1)])

RECURSIVE AddT(_, _, _)
AddT(a, b, depth) ==
    IF depth = 0 THEN a + b
    ELSE [j \in 1..Len(a) |-> AddT(a[j], b[j], depth - 1)]

Clamp(v, bound) == IF v > bound THEN bound ELSE IF v < -bound THEN -bound ELSE v

(***************************************************************************)
(* Serialization (main.py lines 270-273 and 277-280).                       *)
(***************************************************************************)
\* astype("<f4"): the four bytes of a float, least significant first.
F32Bytes(f) ==
    IF f.m = 0 THEN <<0, 0, 0, f.s * 128>>
    ELSE LET ex   == f.e + 150
             frac == f.m - 2 ^ 23
         IN  << frac % 256,
                (frac \div 256) % 256,
                (ex % 2) * 128 + (frac \div 65536),
                f.s * 128 + (ex \div 2) >>

\* numpy.fromfile(dtype="<f4") of four bytes: what a reader of the table gets.
F32FromBytes(b) ==
    LET ex   == (b[4] % 128) * 2 + (b[3] \div 128)
        frac == (b[3] % 128) * 65536 + b[2] * 256 + b[1]
        sign == b[4] \div 128
    IN  IF ex = 0 /\ frac = 0 THEN [s |-> sign, m |-> 0, e |-> 0]
        ELSE [s |-> sign, m |-> 2 ^ 23 + frac, e |-> ex - 150]

\* array.tofile(f): the bytes of the elements, in order.
ToBytes(values) == Concat([j \in 1..Len(values) |-> F32Bytes(values[j])])

\* An open that keeps the old content, as mode "ab" does.
OpenAppend(files, path) == files

\* out_path.open("wb"): the file is created, or truncated if it exists.
OpenWb(files, path) == [files EXCEPT ![path] = <<>>]

\* f.write at the end of the open file.
ToFile(files, path, bytes) == [files EXCEPT ![path] = @ \o bytes]

\* The with-block: open, z_nodes.tofile(f), decoded coefficients .ravel().tofile(f).
WriteTable(files, path, zs, coeff) ==
    ToFile(ToFile(OpenWb(files, path), path, ToBytes(zs)),
           path, ToBytes(Ravel(coeff, 5)))

(***************************************************************************)
(* The quantities of training.  The script computes losses and gradients    *)
(* of a sigmoid spectrum in floating point; the model keeps the structure   *)
(* of that computation (which parameter a loss reaches, where a gradient is *)
(* accumulated, which parameters an optimizer updates) over small integer   *)
(* parameter values.  The gradient of a Stage A loss, which depends on the    *)
(* batch drawn, is any value of Grads.                                      *)
(***************************************************************************)
\* Bounds of the model: the iteration budgets, the checkpoint interval, the
\* table resolution and the number of gamuts are scaled down from the
\* script's (100000, 30000, 2500, 64 and 6), the parameter ranges are cut.
FIRST_EPOCHS == 2

SECOND_EPOCHS == 4

CheckpointEvery == 2

GridN == 2

MaxSpaces == 2

MlpMax == 1

LsMax == 1

RawMax == 3

RandKeyLevels == 2

\* colour-science gamut keys and output files (lines 71-78).
SPACES ==
    << [name |-> "sRGB",             file |-> "../tables//srgb_table.bin"],
       [name |-> "P3-D65",           file |-> "../tables/dcip3d65_table.bin"],
       [name |-> "Adobe RGB (1998)", file |-> "../tables/adobergb_table.bin"],
       [name |-> "ITU-R BT.2020",    file |-> "../tables/rec2020_table.bin"],
       [name |-> "ACEScg",           file |-> "../tables/acescg_table.bin"],
       [name |-> "ACES2065-1",       file |-> "../tables/aces2065_1_table.bin"] >>

\* The keys of colour.RGB_COLOURSPACES the script relies on (line 131).
RGB_COLOURSPACES == {SPACES[j].name : j \in 1..Len(SPACES)}

\* The mappings explored: the first gamuts of SPACES as written, and the same
\* with one key that colour.RGB_COLOURSPACES does not hold.
Configs ==
    LET base == SubSeq(SPACES, 1, MaxSpaces)
    IN  {base} \cup
        {[base EXCEPT ![j].name = "no such colourspace"] : j \in 1..MaxSpaces}

ParamNames == {"mlp", "log_scale", "coeff_raw"}

\* Index levels of each parameter tensor.
Depth(p) == CASE p = "mlp" -> 1 [] p = "log_scale" -> 1 [] p = "coeff_raw" -> 5

Bound(p) ==
    CASE p = "mlp" -> MlpMax [] p = "log_scale" -> LsMax [] p = "coeff_raw" -> RawMax

Grads == {-1, 1}

\* d(loss)/d(log_scale) for a loss whose gradient is g.
LsGrad(g) == <<g, -g, g>>

\* The mlp applied to one RGB triple: raw coefficients that depend on the
\* weights and on the input.
Level(f) == IF f.m = 0 THEN 0 ELSE IF f = F32One THEN 2 ELSE 1

Mlp(w, rgb) == [k \in 1..3 |-> Clamp(w[1] + Level(rgb[k]) - 1, RawMax)]

\* Stage B descends on the colour difference between the grid's targets and
\* the colours of decode(coeff_raw) (lines 258-262): a loss of coeff_raw with
\* one optimum per cell.  The optimum of a cell, in raw coefficients:
Optimum(rgb) == [k \in 1..3 |-> (Level(rgb[k]) - 1) * RawMax]

Sign(v) == IF v > 0 THEN 1 ELSE IF v < 0 THEN -1 ELSE 0

\* d(loss)/d(coeff_raw): per entry, the direction away from the optimum.
CoeffGrad(coeff, target) ==
    [m \in 1..Len(coeff) |-> [zi \in 1..Len(coeff[m]) |->
      [yi \in 1..Len(coeff[m][zi]) |-> [xi \in 1..Len(coeff[m][zi][yi]) |->
        [k \in 1..3 |-> Sign(coeff[m][zi][yi][xi][k]
                             - Optimum(target[m][zi][yi][xi])[k])]]]]]

RECURSIVE SumSeq(_)
SumSeq(q) == IF q = <<>> THEN 0 ELSE Head(q) + SumSeq(Tail(q))

\* d(loss)/d(log_scale) in Stage B: decode multiplies every coefficient k by
\* exp(log_scale[k]), so the gradient of entry k gathers those of column k.
LsGradB(cg) ==
    LET flat == Ravel(cg, 5)
    IN  [k \in 1..3 |->
           Sign(SumSeq([j \in 1..(Len(flat) \div 3) |-> flat[3 * (j - 1) + k]]))]

\* mlp(rgb_target): the mlp applied to every triple of the grid (line 251).
MlpGrid(w, target) ==
    [m \in 1..Len(target) |-> [zi \in 1..Len(target[m]) |->
      [yi \in 1..Len(target[m][zi]) |-> [xi \in 1..Len(target[m][zi][yi]) |->
        Mlp(w, target[m][zi][yi][xi])]]]]

\* exp in eighths and tanh in sixteenths, rounded.
ExpQ(l) ==
    CASE l <= -2 -> 1 [] l = -1 -> 3 [] l = 0 -> 8 [] l = 1 -> 22 [] l >= 2 -> 59

TanhQ(r) ==
    LET a == IF r < 0 THEN -r ELSE r
        t == CASE a = 0 -> 0 [] a = 1 -> 12 [] a = 2 -> 15 [] a >= 3 -> 16
    IN  IF r < 0 THEN -t ELSE t

\* A fixed-point value v * 2^e as a float.
FixToF32(v, e) ==
    IF v < 0 THEN [F32Norm(-v, e) EXCEPT !.s = 1] ELSE F32Norm(v, e)

\* decode (lines 155-162) of one raw triple: scale * tanh(raw), with
\* scale = exp(log_scale) * SCALE.
decode(raw, ls) ==
    << FixToF32(ExpQ(ls[1]) * SCALE_A * TanhQ(raw[1]), -7),
       FixToF32(ExpQ(ls[2]) * SCALE_B * TanhQ(raw[2]), -7),
       FixToF32(ExpQ(ls[3]) * SCALE_C * TanhQ(raw[3]), -7) >>

\* decode of the whole coefficient tensor.
DecodeGrid(coeff, ls) ==
    [m \in 1..Len(coeff) |-> [zi \in 1..Len(coeff[m]) |->
      [yi \in 1..Len(coeff[m][zi]) |-> [xi \in 1..Len(coeff[m][zi][yi]) |->
        decode(coeff[m][zi][yi][xi], ls)]]]]

\* One optimizer update of a parameter tensor by its gradient.
RECURSIVE StepT(_, _, _, _)
StepT(p, g, depth, bound) ==
    IF depth = 0 THEN Clamp(p - g, bound)
    ELSE [j \in 1..Len(p) |-> StepT(p[j], g[j], depth - 1, bound)]

\* tensor.backward(): each gradient is added to the parameter's .grad, or
\* becomes it when .grad is None.
Accumulate(g, has, contrib) ==
    [p \in ParamNames |->
        IF p \notin DOMAIN contrib THEN g[p]
        ELSE IF p \in has THEN AddT(g[p], contrib[p], Depth(p))
        ELSE contrib[p]]

\* opt.step(): every parameter of the optimizer whose .grad is set moves.
OptStep(par, g, has, of) ==
    [p \in ParamNames |->
        IF p \in of /\ p \in has
        THEN StepT(par[p], g[p], Depth(p), Bound(p))
        ELSE par[p]]

\* The parameters mlp.zero_grad() clears (lines 214, 223, 232).
MlpParams == {"mlp"}

\* The parameters of the Stage A optimizer (lines 193-196).
StageAParams == {"mlp", "log_scale"}

\* A Stage B optimizer that is also given the scale factors.
StageBParamsWithScale == {"coeff_raw", "log_scale"}

\* The parameters of the Stage B optimizer (line 252).
StageBParams == {"coeff_raw"}

\* A Stage A loop that is one iteration short.
StageAStopsEarly(i) == i < FIRST_EPOCHS - 1

\* range(1, FIRST_EPOCHS + 1): whether an iteration follows iteration i.
StageAContinues(i) == i < FIRST_EPOCHS

\* range(1, SECOND_EPOCHS + 1)
StageBContinues(epoch) == epoch < SECOND_EPOCHS

\* A checkpoint test that fires one epoch late.
IsCheckpointEpochLate(epoch) == epoch % CheckpointEvery = 1

\* epoch % 2500 == 0 (line 269)
IsCheckpointEpoch(epoch) == epoch % CheckpointEvery = 0

(***************************************************************************)
(* State.                                                                   *)
(***************************************************************************)
VARIABLES
    \* module level (lines 63-78, 119-123)
    kernel,         \* how the build divides a tensor by a python scalar
    table_size,     \* the table resolution the run is configured with
    z_nodes,        \* the z-node tensor (line 68)
    spaces,         \* the gamut mapping the driver iterates over
    \* one cell of the target grid (lines 139-149)
    cell,           \* <<zi, yi, xi>>
    cell_rgb,       \* rgb_target[:, zi, yi, xi, :]
    \* one entry of the dark pool (lines 119-123)
    num_zeros, rand_keys, rand_indices, mask, rand_dark, dark,
    \* driver and train_space
    pc,             \* where the script is
    gi,             \* position of the driver loop in spaces (0: not started)
    i,              \* Stage A loop variable
    epoch,          \* Stage B loop variable
    rgb_target,     \* the target grid of train_space
    param,          \* values of mlp, log_scale, coeff_raw
    grad,           \* their .grad
    has_grad,       \* the parameters whose .grad is not None
    opt,            \* the parameters of the current optimizer
    nsteps,         \* steps the current optimizer has taken
    sched,          \* the scheduler: last_epoch and T_max
    fs,             \* the files: path -> bytes
    \* history
    phase,          \* per gamut: "idle", "A", "B", "done"
    writes,         \* per path: completed writes
    last_write,     \* the last completed write of the current gamut
    ckpt_epochs,    \* epochs of the current gamut that wrote a checkpoint
    fwd_at,         \* optimizer steps taken when the last forward pass ran
    pending,        \* batch whose gradient is computed and not yet applied
    updates,        \* batches applied in the current Stage A iteration
    fresh,          \* gradient of the loss of the last backward alone
    mlp_calls,      \* evaluations of the mlp in the current train_space
    stage_a_end     \* mlp and log_scale as Stage A left them

moduleVars == <<kernel, table_size, z_nodes, spaces>>

gridVars == <<cell, cell_rgb>>

darkVars == <<num_zeros, rand_keys, rand_indices, mask, rand_dark, dark>>

loopVars == <<gi, i, epoch>>

tensorVars == <<rgb_target, param, grad, has_grad>>

optVars == <<opt, nsteps, sched>>

fileVars == <<fs, writes, last_write, ckpt_epochs>>

histVars == <<phase, fwd_at, pending, updates, fresh, mlp_calls, stage_a_end>>

trainVars == <<loopVars, tensorVars, optVars, fileVars, histVars>>

vars == <<moduleVars, gridVars, darkVars, pc, trainVars>>

\* The table resolutions explored: the small ones, and the program's own.
TableSizes == (2..GridN) \cup {TABLE_SIZE}

NoWrite == [kind |-> "none", epoch |-> 0, steps |-> 0]

GridIdle == cell = <<0, 0, 0>> /\ cell_rgb = <<>>

DarkIdle ==
    /\ num_zeros = 0
    /\ rand_keys = <<>>
    /\ rand_indices = <<>>
    /\ mask = <<>>
    /\ rand_dark = <<>>
    /\ dark = <<>>

\* The state of train_space before its first call.
TrainIdle ==
    /\ gi = 0
    /\ i = 0
    /\ epoch = 0
    /\ rgb_target = <<>>
    /\ param = [p \in ParamNames |-> <<>>]
    /\ grad = [p \in ParamNames |-> <<>>]
    /\ has_grad = {}
    /\ opt = {}
    /\ nsteps = 0
    /\ sched = [last_epoch |-> 0, T_max |-> 0]
    /\ writes = [f \in {spaces[j].file : j \in 1..Len(spaces)} |-> 0]
    /\ last_write = NoWrite
    /\ ckpt_epochs = {}
    /\ phase = [g \in 1..Len(spaces) |-> "idle"]
    /\ fwd_at = 0
    /\ pending = "none"
    /\ updates = <<>>
    /\ fresh = [p \in ParamNames |-> <<>>]
    /\ mlp_calls = 0
    /\ stage_a_end = <<>>

(***************************************************************************)
(* SpecZ: the z-node tensor, filled element by element (line 68).           *)
(***************************************************************************)
InitGrid ==
    /\ kernel \in Kernels
    /\ table_size \in TableSizes
    /\ z_nodes = <<>>
    /\ spaces = <<>>
    /\ GridIdle
    /\ DarkIdle
    /\ TrainIdle
    /\ fs = <<>>
    /\ pc = "import"

\* The next element of smoothstep(smoothstep(idx_float / (TABLE_SIZE - 1))).
ComputeZNode ==
    /\ pc = "import"
    /\ Len(z_nodes) < table_size
    /\ z_nodes' = Append(z_nodes, z_node(kernel, table_size, Len(z_nodes)))
    /\ UNCHANGED <<kernel, table_size, spaces, gridVars, darkVars, pc, trainVars>>

NextZ == ComputeZNode

SpecZ == InitGrid /\ [][NextZ]_vars

(***************************************************************************)
(* SpecGrid: the z-nodes and the target grid, one cell at a time.           *)
(***************************************************************************)
\* line 68, the whole tensor
ComputeZNodes ==
    /\ pc = "import"
    /\ z_nodes' = ZNodes(kernel, table_size)
    /\ pc' = "z_nodes"
    /\ UNCHANGED <<kernel, table_size, spaces, gridVars, darkVars, trainVars>>

\* lines 139-149, for the grid cell (zi, yi, xi)
BuildTarget ==
    /\ pc = "z_nodes"
    /\ \E y, x \in {<<idx, IdxFrac(kernel, table_size, idx)>> :
                       idx \in 0..(table_size - 1)} :
          \E zi \in 0..(table_size - 1) :
             /\ cell' = <<zi, y[1], x[1]>>
             /\ cell_rgb' = TargetCell(z_nodes[zi + 1], y[2], x[2])
    /\ pc' = "rgb_target"
    /\ UNCHANGED <<moduleVars, darkVars, trainVars>>

NextGrid == ComputeZNodes \/ BuildTarget

SpecGrid == InitGrid /\ [][NextGrid]_vars

(***************************************************************************)
(* SpecDark: one entry of the dark pool.                                    *)
(***************************************************************************)
\* torch.rand draws a float32 in [0, 1): a multiple of 2^-24.  The draws
\* explored: 0, the smallest, values around 1/3 and 1/2, and the largest.
RandDraws ==
    {F32Norm(k, -24) : k \in {0, 1, 5592405, 8388607, 8388608, 16777215}}

RandKeys == [0..2 -> 0..(RandKeyLevels - 1)]

InitDark ==
    /\ kernel = "rcp"
    /\ table_size = TABLE_SIZE
    /\ z_nodes = <<>>
    /\ spaces = <<>>
    /\ GridIdle
    /\ DarkIdle
    /\ TrainIdle
    /\ fs = <<>>
    /\ pc = "import"

\* lines 120-123, for one row of the pool
DrawDark ==
    /\ pc = "import"
    /\ \E nz \in 0..2, keys \in RandKeys, r \in [0..2 -> RandDraws] :
          \E p \in ArgSorts(keys) :
             /\ num_zeros' = nz
             /\ rand_keys' = keys
             /\ rand_indices' = p
             /\ mask' = DarkMask(p, nz)
             /\ rand_dark' = r
             /\ dark' = DarkRow(r, DarkMask(p, nz))
    /\ pc' = "rand_dark_pool"
    /\ UNCHANGED <<moduleVars, gridVars, trainVars>>

NextDark == DrawDark

SpecDark == InitDark /\ [][NextDark]_vars

(***************************************************************************)
(* Spec: the driver loop and train_space.                                   *)
(***************************************************************************)
\* What the first output path holds before the run: nothing, or an older
\* file.
OldFiles == {<<>>, <<0, 0, 128, 63, 255>>}

Init ==
    /\ kernel = "rcp"
    /\ table_size = GridN
    /\ z_nodes = ZNodes(kernel, table_size)
    /\ spaces \in Configs
    /\ GridIdle
    /\ DarkIdle
    /\ TrainIdle
    /\ \E old \in OldFiles :
          fs = [f \in {spaces[j].file : j \in 1..Len(spaces)} |->
                   IF f = spaces[1].file THEN old ELSE <<>>]
    /\ pc = "driver"

\* The random initial weights of the mlp (lines 180-192).
MlpInit == {-1, 0, 1}

\* for cs_key, filename in SPACES.items() (line 288), and lines 300-305
DriverLoop ==
    /\ pc = "driver"
    /\ IF gi < Len(spaces)
       THEN gi' = gi + 1 /\ pc' = "call"
       ELSE gi' = gi /\ pc' = "done"
    /\ UNCHANGED <<moduleVars, gridVars, darkVars, i, epoch, tensorVars,
                   optVars, fileVars, histVars>>

\* train_space up to its first loop (lines 129-197).  The lookup of line 131
\* raises KeyError for an unknown key, which nothing catches.
EnterTrainSpace ==
    /\ pc = "call"
    /\ IF spaces[gi].name \notin RGB_COLOURSPACES
       THEN /\ pc' = "crashed"
            /\ UNCHANGED trainVars
       ELSE /\ rgb_target' = RgbTarget(kernel, table_size, z_nodes)
            /\ \E w \in MlpInit :
                  param' = [p \in ParamNames |->
                               CASE p = "mlp" -> <<w>>
                                 [] p = "log_scale" -> <<0, 0, 0>>
                                 [] p = "coeff_raw" -> <<>>]
            /\ grad' = [p \in ParamNames |-> <<>>]
            /\ has_grad' = {}
            /\ opt' = StageAParams
            /\ nsteps' = 0
            /\ sched' = [last_epoch |-> 0, T_max |-> FIRST_EPOCHS]
            /\ i' = 0
            /\ epoch' = 0
            /\ phase' = [phase EXCEPT ![gi] = "A"]
            /\ last_write' = NoWrite
            /\ ckpt_epochs' = {}
            /\ fwd_at' = 0
            /\ pending' = "none"
            /\ updates' = <<>>
            /\ fresh' = [p \in ParamNames |-> <<>>]
            /\ mlp_calls' = 0
            /\ stage_a_end' = <<>>
            /\ pc' = "A_loop"
            /\ UNCHANGED <<gi, fs, writes>>
    /\ UNCHANGED <<moduleVars, gridVars, darkVars>>

\* for i in range(1, FIRST_EPOCHS + 1), and the batch sampling (lines 199-207)
StageALoop ==
    /\ pc = "A_loop"
    /\ IF StageAContinues(i)
       THEN i' = i + 1 /\ updates' = <<>> /\ pc' = "fwd_rgb"
       ELSE i' = i /\ updates' = updates /\ pc' = "B_init"
    /\ UNCHANGED <<moduleVars, gridVars, darkVars, gi, epoch, tensorVars,
                   optVars, fileVars, phase, fwd_at, pending, fresh,
                   mlp_calls, stage_a_end>>

\* pred = rgb_from_coeff(decode(mlp(input))) and the losses
\* (lines 210-212, 219-221, 228-230)
Forward(b) ==
    /\ pc = "fwd_" \o b
    /\ fwd_at' = nsteps
    /\ mlp_calls' = mlp_calls + 1
    /\ pc' = "bwd_" \o b
    /\ UNCHANGED <<moduleVars, gridVars, darkVars, loopVars, tensorVars,
                   optVars, fileVars, phase, pending, updates, fresh,
                   stage_a_end>>

\* mlp.zero_grad(set_to_none=True); (loss + reg_loss).backward()
\* (lines 214-215, 223-224, 232-233)
Backward(b) ==
    /\ pc = "bwd_" \o b
    /\ \E g \in Grads :
          LET cleared == has_grad \ MlpParams
              contrib == [p \in {"mlp", "log_scale"} |->
                             IF p = "mlp" THEN <<g>> ELSE LsGrad(g)]
          IN  /\ grad' = Accumulate(grad, cleared, contrib)
              /\ has_grad' = cleared \cup DOMAIN contrib
              /\ fresh' = [p \in ParamNames |->
                             IF p \in DOMAIN contrib THEN contrib[p] ELSE <<>>]
    /\ pending' = b
    /\ pc' = "step_" \o b
    /\ UNCHANGED <<moduleVars, gridVars, darkVars, loopVars, rgb_target, param,
                   optVars, fileVars, phase, fwd_at, updates, mlp_calls,
                   stage_a_end>>

\* opt.step() (lines 216, 225, 234)
Step(b, next) ==
    /\ pc = "step_" \o b
    /\ param' = OptStep(param, grad, has_grad, opt)
    /\ nsteps' = nsteps + 1
    /\ updates' = Append(updates, b)
    /\ pending' = "none"
    /\ fresh' = [p \in ParamNames |-> <<>>]
    /\ pc' = next
    /\ UNCHANGED <<moduleVars, gridVars, darkVars, loopVars, rgb_target, grad,
                   has_grad, opt, sched, fileVars, phase, fwd_at, mlp_calls,
                   stage_a_end>>

ForwardRgb == Forward("rgb")

BackwardRgb == Backward("rgb")

StepRgb == Step("rgb", "fwd_green")

ForwardGreen == Forward("green")

BackwardGreen == Backward("green")

StepGreen == Step("green", "fwd_dark")

ForwardDark == Forward("dark")

BackwardDark == Backward("dark")

StepDark == Step("dark", "sched")

\* An iteration that ends without scheduler.step().
SchedulerStepSkipped ==
    /\ pc = "sched"
    /\ pc' = "A_loop"
    /\ UNCHANGED <<moduleVars, gridVars, darkVars, loopVars, tensorVars,
                   optVars, fileVars, histVars>>

\* scheduler.step() and the monitoring of the iteration (lines 237-248)
SchedulerStepA ==
    /\ pc = "sched"
    /\ sched' = [sched EXCEPT !.last_epoch = @ + 1]
    /\ pc' = "A_loop"
    /\ UNCHANGED <<moduleVars, gridVars, darkVars, loopVars, tensorVars, opt,
                   nsteps, fileVars, histVars>>

\* coeff_raw = Parameter(mlp(rgb_target)); the Stage B optimizer and its
\* scheduler (lines 251-253)
StageBInit ==
    /\ pc = "B_init"
    /\ param' = [param EXCEPT !["coeff_raw"] = MlpGrid(param["mlp"], rgb_target)]
    /\ grad' = [grad EXCEPT !["coeff_raw"] = <<>>]
    /\ has_grad' = has_grad \ {"coeff_raw"}
    /\ opt' = StageBParams
    /\ nsteps' = 0
    /\ sched' = [last_epoch |-> 0, T_max |-> SECOND_EPOCHS]
    /\ epoch' = 0
    /\ mlp_calls' = mlp_calls + 1
    /\ phase' = [phase EXCEPT ![gi] = "B"]
    /\ stage_a_end' = <<param["mlp"], param["log_scale"]>>
    /\ pc' = "B_loop"
    /\ UNCHANGED <<moduleVars, gridVars, darkVars, gi, i, rgb_target, fileVars,
                   fwd_at, pending, updates, fresh>>

\* for epoch in range(1, SECOND_EPOCHS + 1) (line 255)
StageBLoop ==
    /\ pc = "B_loop"
    /\ IF StageBContinues(epoch)
       THEN epoch' = epoch + 1 /\ pc' = "B_epoch"
       ELSE epoch' = epoch /\ pc' = "final"
    /\ UNCHANGED <<moduleVars, gridVars, darkVars, gi, i, tensorVars, optVars,
                   fileVars, histVars>>

\* One refinement epoch: opt.zero_grad, the loss of decode(coeff_raw),
\* backward, opt.step, scheduler.step (lines 256-267)
EpochB ==
    /\ pc = "B_epoch"
    /\ LET cleared == has_grad \ opt
           cg      == CoeffGrad(param["coeff_raw"], rgb_target)
           contrib == [p \in {"coeff_raw", "log_scale"} |->
                          IF p = "coeff_raw" THEN cg ELSE LsGradB(cg)]
           g1      == Accumulate(grad, cleared, contrib)
           has1    == cleared \cup DOMAIN contrib
       IN  /\ grad' = g1
           /\ has_grad' = has1
           /\ param' = OptStep(param, g1, has1, opt)
    /\ nsteps' = nsteps + 1
    /\ sched' = [sched EXCEPT !.last_epoch = @ + 1]
    /\ pc' = "B_ckpt"
    /\ UNCHANGED <<moduleVars, gridVars, darkVars, loopVars, rgb_target, opt,
                   fileVars, histVars>>

\* if epoch % 2500 == 0: write the table (lines 269-274)
CheckpointB ==
    /\ pc = "B_ckpt"
    /\ IF IsCheckpointEpoch(epoch)
       THEN /\ fs' = WriteTable(fs, spaces[gi].file, z_nodes,
                                DecodeGrid(param["coeff_raw"], param["log_scale"]))
            /\ writes' = [writes EXCEPT ![spaces[gi].file] = @ + 1]
            /\ last_write' = [kind |-> "checkpoint", epoch |-> epoch,
                              steps |-> nsteps]
            /\ ckpt_epochs' = ckpt_epochs \cup {epoch}
       ELSE UNCHANGED fileVars
    /\ pc' = "B_loop"
    /\ UNCHANGED <<moduleVars, gridVars, darkVars, loopVars, tensorVars,
                   optVars, histVars>>

\* The final table (lines 277-281)
FinalWrite ==
    /\ pc = "final"
    /\ fs' = WriteTable(fs, spaces[gi].file, z_nodes,
                        DecodeGrid(param["coeff_raw"], param["log_scale"]))
    /\ writes' = [writes EXCEPT ![spaces[gi].file] = @ + 1]
    /\ last_write' = [kind |-> "final", epoch |-> epoch, steps |-> nsteps]
    /\ phase' = [phase EXCEPT ![gi] = "done"]
    /\ pc' = "return"
    /\ UNCHANGED <<moduleVars, gridVars, darkVars, loopVars, tensorVars,
                   optVars, ckpt_epochs, fwd_at, pending, updates, fresh,
                   mlp_calls, stage_a_end>>

\* train_space returns; the driver reports the time (lines 293-298)
DriverReport ==
    /\ pc = "return"
    /\ pc' = "driver"
    /\ UNCHANGED <<moduleVars, gridVars, darkVars, trainVars>>

Next ==
    \/ DriverLoop
    \/ EnterTrainSpace
    \/ StageALoop
    \/ ForwardRgb
    \/ BackwardRgb
    \/ StepRgb
    \/ ForwardGreen
    \/ BackwardGreen
    \/ StepGreen
    \/ ForwardDark
    \/ BackwardDark
    \/ StepDark
    \/ SchedulerStepA
    \/ StageBInit
    \/ StageBLoop
    \/ EpochB
    \/ CheckpointB
    \/ FinalWrite
    \/ DriverReport

Spec == Init /\ [][Next]_vars

(***************************************************************************)
(* Properties of the driver and of Stage A (Spec).                          *)
(***************************************************************************)
Gamuts == 1..Len(spaces)

Active == {g \in Gamuts : phase[g] \in {"A", "B"}}

\* The positions inside the Stage A loop, and those of Stage B.
StageAPcs ==
    {"A_loop", "sched"} \cup
    {op \o b : op \in {"fwd_", "bwd_", "step_"}, b \in {"rgb", "green", "dark"}}

StageBPcs == {"B_loop", "B_epoch", "B_ckpt", "final"}

C1_PhaseInv ==
    /\ Cardinality(Active) <= 1
    /\ \A g \in Active : g = gi
    /\ \A g \in Gamuts : \A h \in 1..(g - 1) :
          phase[g] # "idle" =>
              phase[h] = "done" /\ writes[spaces[h].file] >= 1
    /\ pc \in StageAPcs => phase[gi] = "A" /\ i \in 0..FIRST_EPOCHS
    /\ pc = "B_init" => phase[gi] = "A" /\ i = FIRST_EPOCHS
    /\ pc \in StageBPcs => phase[gi] = "B" /\ i = FIRST_EPOCHS
    /\ pc = "return" => phase[gi] = "done"
    /\ pc \in {"driver", "call", "crashed", "done"} => Active = {}

C1_PhaseStep ==
    \A g \in Gamuts :
        /\ phase[g] = "idle" /\ phase'[g] # "idle" =>
              /\ phase'[g] = "A"
              /\ i' = 0
              /\ \A h \in 1..(g - 1) :
                    phase[h] = "done" /\ last_write.kind = "final"
        /\ phase[g] = "A" /\ phase'[g] # "A" =>
              /\ phase'[g] = "B"
              /\ i = FIRST_EPOCHS
              /\ nsteps = 3 * FIRST_EPOCHS
              /\ sched.last_epoch = FIRST_EPOCHS
        /\ phase[g] = "B" =>
              /\ i' = i
              /\ pc' \notin StageAPcs
        /\ phase[g] = "B" /\ phase'[g] # "B" =>
              /\ phase'[g] = "done"
              /\ epoch = SECOND_EPOCHS
              /\ last_write'.kind = "final"
              /\ writes'[spaces[g].file] = writes[spaces[g].file] + 1
        /\ phase[g] = "done" => phase'[g] = "done"

\* C1: the phases are strictly ordered and never revisited.  For each gamut,
\* Stage B starts only after Stage A has completed all of its FIRST_EPOCHS
\* iterations, Stage A is never re-entered once Stage B has started, the next
\* gamut's Stage A starts only after the previous gamut's final table write
\* has completed, and at no point are two stages or two gamuts active at once.
C1_PhaseOrder == []C1_PhaseInv /\ [][C1_PhaseStep]_vars

\* The second gamut is being refined after the first one was written.
C1_Witness ==
    /\ Len(spaces) >= 2
    /\ phase[1] = "done"
    /\ phase[2] = "B"
    /\ pc = "B_ckpt"
    /\ epoch = 1

Batches == <<"rgb", "green", "dark">>

BatchIdx(b) == CHOOSE k \in 1..3 : Batches[k] = b

C7_IterationInv ==
    /\ pc \in StageAPcs => sched.T_max = FIRST_EPOCHS
    /\ pc = "A_loop" =>
          /\ nsteps = 3 * i
          /\ sched.last_epoch = i
          /\ pending = "none"
          /\ i >= 1 => updates = Batches
    /\ \A b \in {"rgb", "green", "dark"} :
          LET done == BatchIdx(b) - 1
          IN  /\ pc \in {"fwd_" \o b, "bwd_" \o b, "step_" \o b} =>
                    /\ updates = SubSeq(Batches, 1, done)
                    /\ nsteps = 3 * (i - 1) + done
                    /\ sched.last_epoch = i - 1
              /\ pc = "fwd_" \o b => pending = "none"
              /\ pc = "bwd_" \o b => pending = "none" /\ fwd_at = nsteps
              /\ pc = "step_" \o b => pending = b /\ fwd_at = nsteps
    /\ pc = "sched" =>
          /\ updates = Batches
          /\ nsteps = 3 * i
          /\ sched.last_epoch = i - 1
          /\ pending = "none"
    /\ pc = "B_init" =>
          /\ nsteps = 3 * FIRST_EPOCHS
          /\ sched.last_epoch = FIRST_EPOCHS
          /\ sched.T_max = FIRST_EPOCHS

C7_IterationStep ==
    /\ pending # "none" =>
          /\ nsteps' = nsteps + 1
          /\ updates' = Append(updates, pending)
          /\ pending' = "none"
    /\ i' = i + 1 =>
          /\ sched.last_epoch = i
          /\ nsteps = 3 * i

\* C7: in every Stage A iteration exactly three parameter updates happen, in
\* the order general, green, dark; each gradient computation is followed
\* immediately by its optimizer step, before the forward pass of the next
\* batch; the iteration completes its learning-rate-schedule step before the
\* next iteration begins, so over the stage the cosine schedule is advanced
\* exactly FIRST_EPOCHS times, its configured period.
C7_ThreeUpdates == []C7_IterationInv /\ [][C7_IterationStep]_vars

\* The dark loss of the last iteration, evaluated after the two updates
\* before it.
C7_Witness ==
    /\ pc = "bwd_dark"
    /\ i = FIRST_EPOCHS
    /\ updates = <<"rgb", "green">>
    /\ fwd_at = 3 * FIRST_EPOCHS - 1

\* C8: the three Stage A updates are separate gradient steps.  For every
\* parameter of the Stage A optimizer, the gradient an optimizer step applies
\* comes only from the loss of that step; gradient from an earlier step's
\* loss is cleared before the backward pass and never carried into a later
\* step.
C8_SeparateGradients ==
    \A b \in {"rgb", "green", "dark"} :
        pc = "step_" \o b =>
            \A p \in opt : p \in has_grad /\ grad[p] = fresh[p]

\* C4: an unknown gamut name is fatal at startup.  If any name of the mapping
\* is not a known colour space, no gamut's training starts and no table file
\* is written.
C4_FatalAtStartup ==
    (\E j \in Gamuts : spaces[j].name \notin RGB_COLOURSPACES) =>
        /\ \A g \in Gamuts : phase[g] = "idle"
        /\ \A f \in DOMAIN writes : writes[f] = 0

(***************************************************************************)
(* Properties of Stage B and of the table files (Spec).                     *)
(***************************************************************************)
\* The file of the gamut in hand.
CurFile == fs[spaces[gi].file]

\* A write has just completed: the final one, or the checkpoint of this epoch.
AfterCheckpoint ==
    pc = "B_loop" /\ last_write.kind = "checkpoint" /\ last_write.epoch = epoch

AfterWrite == pc = "return" \/ AfterCheckpoint

\* The float stored at a byte offset of a file.
F32At(bytes, off) == F32FromBytes(SubSeq(bytes, off + 1, off + 4))

\* The decoded coefficients as they stand.
Decoded == DecodeGrid(param["coeff_raw"], param["log_scale"])

\* The epochs whose end has been reached.
EpochsEnded == IF pc \in {"B_epoch", "B_ckpt"} THEN epoch - 1 ELSE epoch

\* C2: during Stage B a checkpoint is serialized at the end of epoch e exactly
\* when e is a multiple of the interval, always after that epoch's optimizer
\* step, and after the last epoch the final table is serialized
\* unconditionally; the last completed write holds the decoded coefficients
\* as they stand after the final epoch's update, and every checkpoint holds
\* them as they stand after the update of the epoch that triggered it.
C2_Checkpoints ==
    pc \in StageBPcs \cup {"return"} =>
        /\ ckpt_epochs = {e \in 1..EpochsEnded : e % CheckpointEvery = 0}
        /\ pc = "B_ckpt" => nsteps = epoch
        /\ pc = "B_loop" /\ epoch >= 1 =>
              (AfterCheckpoint <=> epoch % CheckpointEvery = 0)
        /\ AfterCheckpoint =>
              /\ last_write.steps = epoch
              /\ nsteps = epoch
              /\ CurFile = ToBytes(z_nodes) \o ToBytes(Ravel(Decoded, 5))
        /\ pc = "return" =>
              /\ last_write =
                    [kind |-> "final", epoch |-> SECOND_EPOCHS,
                     steps |-> SECOND_EPOCHS]
              /\ nsteps = SECOND_EPOCHS
              /\ CurFile = ToBytes(z_nodes) \o ToBytes(Ravel(Decoded, 5))

\* A gamut is finished, with checkpoints at some of its epochs and not at
\* others.
C2_Witness ==
    /\ pc = "return"
    /\ last_write.kind = "final"
    /\ ckpt_epochs # {}
    /\ ckpt_epochs # 1..SECOND_EPOCHS

\* The size of a table file of resolution n.
FileSize(n) == 4 * n + 4 * (3 * n * n * n * 3)

\* C3: after any completed table write, however many writes to the same path
\* preceded it, the file holds exactly one snapshot: N z-node values followed
\* immediately by 3*N*N*N*3 coefficient values, 4 bytes each, the coefficient
\* (m, zi, yi, xi, k) at byte offset 4*N + 4*((((m*N + zi)*N + yi)*N + xi)*3
\* + k); for N = 64 the coefficients start at offset 256 and the file is
\* exactly 9,437,440 bytes.  A write replaces the previous content.
C3_Layout ==
    LET n == table_size
    IN  /\ \A f \in DOMAIN fs : writes[f] > 0 => Len(fs[f]) = FileSize(n)
        /\ AfterWrite =>
              /\ \A j \in 0..(n - 1) : F32At(CurFile, 4 * j) = z_nodes[j + 1]
              /\ \A m \in 0..2 : \A zi, yi, xi \in 0..(n - 1) : \A k \in 0..2 :
                    F32At(CurFile,
                          4 * n + 4 * ((((m * n + zi) * n + yi) * n + xi) * 3 + k))
                        = Decoded[m + 1][zi + 1][yi + 1][xi + 1][k + 1]
        /\ 4 * TABLE_SIZE = 256
        /\ FileSize(TABLE_SIZE) = 9437440

\* The final write of a gamut, onto a file that checkpoints had written.
C3_Witness ==
    /\ pc = "return"
    /\ writes[spaces[gi].file] >= 2
    /\ Len(CurFile) = FileSize(table_size)
    /\ \E j \in 1..Len(CurFile) : CurFile[j] # 0

C9_FrameInv ==
    pc \in StageBPcs \cup {"return"} =>
        /\ mlp_calls = 3 * FIRST_EPOCHS + 1
        /\ stage_a_end = <<param["mlp"], param["log_scale"]>>
        /\ pc = "B_loop" /\ epoch = 0 =>
              /\ z_nodes = ZNodes(kernel, table_size)
              /\ rgb_target = RgbTarget(kernel, table_size, z_nodes)
              /\ param["coeff_raw"] = MlpGrid(param["mlp"], rgb_target)
        /\ AfterWrite =>
              SubSeq(CurFile, 4 * table_size + 1, Len(CurFile))
                  = ToBytes(Ravel(DecodeGrid(param["coeff_raw"], stage_a_end[2]), 5))

C9_FrameStep ==
    pc \in StageBPcs =>
        /\ param'["mlp"] = param["mlp"]
        /\ param'["log_scale"] = param["log_scale"]
        /\ rgb_target' = rgb_target
        /\ z_nodes' = z_nodes
        /\ mlp_calls' = mlp_calls
        /\ stage_a_end' = stage_a_end

\* C9: in Stage B the predictor is evaluated exactly once, on the target grid
\* before the first refinement epoch, and from then on every epoch changes
\* only the raw coefficient tensor: the predictor's parameters, the scale
\* factors used by decode, the target grid and the z-nodes are left unchanged
\* by every epoch and every write, so all checkpoints and the final table are
\* decoded with the scale factors that Stage A ended with.
C9_StageBFrame == []C9_FrameInv /\ [][C9_FrameStep]_vars

\* A refinement epoch has moved the coefficients away from the predictor's,
\* under scale factors that Stage A has moved.
C9_Witness ==
    /\ pc = "B_ckpt"
    /\ epoch >= 2
    /\ param["coeff_raw"] # MlpGrid(param["mlp"], rgb_target)
    /\ stage_a_end[2] # <<0, 0, 0>>

(***************************************************************************)
(* Properties of the z-nodes (SpecZ).                                       *)
(***************************************************************************)
\* C6: the z-node sequence s(i) = smoothstep(smoothstep(i/(N-1))) is
\* monotonically non-decreasing, every value lies in [0, 1], and its end
\* points are exact: s(0) = 0 and s(N-1) = 1.  Stated of every prefix of the
\* tensor as it is filled, for every table size and both division kernels.
C6_ZNodesMonotone ==
    /\ \A j \in 1..(Len(z_nodes) - 1) : F32Leq(z_nodes[j], z_nodes[j + 1])
    /\ \A j \in 1..Len(z_nodes) :
          /\ z_nodes[j].s = 0
          /\ F32Leq(z_nodes[j], F32One)
    /\ Len(z_nodes) >= 1 => z_nodes[1] = F32Zero
    /\ Len(z_nodes) = table_size => z_nodes[table_size] = F32One

\* The whole tensor of the program's own table size has been computed.
C6_Witness ==
    /\ pc = "import"
    /\ table_size = TABLE_SIZE
    /\ Len(z_nodes) = TABLE_SIZE
    /\ z_nodes[TABLE_SIZE \div 2] # z_nodes[TABLE_SIZE \div 2 + 1]

(***************************************************************************)
(* Properties of the target grid (SpecGrid).                                *)
(***************************************************************************)
\* C5: for every grid cell (zi, yi, xi), with z = s(zi), y = (yi/(N-1))*z and
\* x = (xi/(N-1))*z, the grid holds three triples, one per major axis m, such
\* that channel m of triple m equals z, the other two channels are x and y in
\* the cyclic arrangement (z,x,y), (y,z,x), (x,y,z), the dominant channel of
\* every triple is greater than or equal to the other two, and all channels
\* lie in [0, 1].
C5_TargetGrid ==
    pc = "rgb_target" =>
        LET z == z_node(kernel, table_size, cell[1])
            y == F32Mul(DivScalar(kernel, IntToF32(cell[2]), table_size - 1), z)
            x == F32Mul(DivScalar(kernel, IntToF32(cell[3]), table_size - 1), z)
        IN  /\ Len(cell_rgb) = 3
            /\ \A m \in 1..3 : cell_rgb[m][m] = z
            /\ cell_rgb = << <<z, x, y>>, <<y, z, x>>, <<x, y, z>> >>
            /\ \A m \in 1..3 : \A k \in 1..3 :
                  /\ cell_rgb[m][k].s = 0
                  /\ F32Leq(cell_rgb[m][k], cell_rgb[m][m])
                  /\ F32Leq(cell_rgb[m][k], F32One)

\* A cell of the full-size grid whose three channels differ.
C5_Witness ==
    /\ pc = "rgb_target"
    /\ table_size = TABLE_SIZE
    /\ cell = <<TABLE_SIZE \div 2, TABLE_SIZE - 2, 1>>
    /\ cell_rgb[2][1] # cell_rgb[2][3]
    /\ cell_rgb[2][1] # cell_rgb[2][2]

(***************************************************************************)
(* Properties of the dark pool (SpecDark).                                  *)
(***************************************************************************)
\* f < 0.3, for a float f >= 0: f = m * 2^e with 2^23 <= m < 2^24.
LtThreeTenths(f) ==
    \/ f.m = 0
    \/ f.e < -25
    \/ f.e = -25 /\ 10 * f.m < 3 * 33554432

\* C10: for every entry of the dark pool the zero-mask is built from a
\* permutation p of {0,1,2} and a count n in {0,1,2} as mask[j] = (p[j] >= n);
\* exactly n channels are forced to zero, never all three, the forced subset
\* is determined by the permutation, and every channel of the triple lies in
\* [0, 0.3), with forced channels exactly 0.
C10_DarkPool ==
    pc = "rand_dark_pool" =>
        LET forced == {j \in 0..2 : mask[j] = F32Zero}
        IN  /\ rand_indices \in Perms3
            /\ num_zeros \in 0..2
            /\ \A j \in 0..2 : mask[j] \in {F32Zero, F32One}
            /\ \A j \in 0..2 : (mask[j] = F32One) <=> (rand_indices[j] >= num_zeros)
            /\ Cardinality(forced) = num_zeros
            /\ forced # 0..2
            /\ forced = {j \in 0..2 : rand_indices[j] < num_zeros}
            /\ \A j \in 0..2 :
                  /\ dark[j].s = 0
                  /\ LtThreeTenths(dark[j])
                  /\ j \in forced => dark[j] = F32Zero

\* Two channels forced to zero, the third drawn as the largest float below 1.
C10_Witness ==
    /\ pc = "rand_dark_pool"
    /\ num_zeros = 2
    /\ Cardinality({j \in 0..2 : dark[j] = F32Zero}) = 2
    /\ \E j \in 0..2 :
          /\ rand_dark[j] = F32Norm(16777215, -24)
          /\ dark[j] # F32Zero

====
